---- MODULE Spec2Model ----
(***************************************************************************)
(* Model of the load balancer servo: the HAProxy configuration handler     *)
(* with its process-wide policy cache and the parsed configuration it      *)
(* edits (haproxy_manager.go), the composite and channel handlers, the     *)
(* Redis handler (redis_handler.go), and the activity value cache,         *)
(* doActivity and the polling loop (main.go).  Every call is one action;   *)
(* a history record (`call`, `cacheCall`, `edit`, `task`) keeps the last   *)
(* completed call: its arguments, the state before it, its result and the  *)
(* collaborators invoked, in order.                                        *)
(***************************************************************************)
EXTENDS Integers, Sequences, FiniteSets, TLC

VARIABLES Policies, call, ActivityValuesBySha1, clock, cacheCall, handled,
          emitted, environment, document, edit,
          Channels, goroutines, sentValues, receivedValues,
          ActivityLastValues, task

handlerVars == <<Policies, call>>

cacheVars == <<ActivityValuesBySha1, clock, cacheCall, handled>>

synthesisVars == <<emitted, environment>>

configurationVars == <<document, edit>>

channelVars == <<Channels, goroutines, sentValues, receivedValues>>

activityVars == <<ActivityLastValues, task>>

vars == <<Policies, call, ActivityValuesBySha1, clock, cacheCall, handled, emitted, environment,
          document, edit, Channels, goroutines, sentValues, receivedValues,
          ActivityLastValues, task>>

----------------------------------------------------------------------------
(* Bounds *)

MaxPolicyNames == 3
MaxReferences == 2
MaxLoadBalancers == 2
MaxPolicyDescriptions == 2
MaxSecondaries == 2
MaxCacheValues == 2
MaxTime == 501
MaxCapacity == 1
MaxGoroutines == 2
MaxValues == 3

----------------------------------------------------------------------------
(* Generic helpers *)

Range(s) == {s[i] : i \in DOMAIN s}

SeqsUpTo(S, n) == UNION {[1..k -> S] : k \in 0..n}

RECURSIVE Flatten(_)
Flatten(ss) == IF ss = <<>> THEN <<>> ELSE Head(ss) \o Flatten(Tail(ss))

Reverse(s) == [i \in DOMAIN s |-> s[Len(s) + 1 - i]]

Orderings(S) == {s \in [1..Cardinality(S) -> S] : \A i, j \in DOMAIN s : s[i] = s[j] => i = j}

----------------------------------------------------------------------------
(* Errors: Go error values, nil included *)

Error(kind, detail) == [kind |-> kind, detail |-> detail]

Nil == Error("nil", "")

XmlSyntaxError == Error("xml", "")

\* Slip: the missing policy is reported as success.
PolicyNotFoundIgnored(policyName) == Nil

PolicyNotFound(policyName) == Error("policy not found", policyName)

TemplateReadError == Error("template supplier", "")

TemplateParseError == Error("template parse", "")

ErrSectionAlreadyExists == Error("section already exists", "")

\* The parser has no data under the attribute asked for.
ErrFetch == Error("no data", "")

InvalidTimeoutType == Error("Invalid type for timeout", "")

ConfigurationWriteError == Error("configuration receiver", "")

RedisError == Error("redis", "")

NotSupported == Error("not supported", "")

\* A Go *string: nil, or a pointer to a string.
NilString == [set |-> FALSE, string |-> ""]

StringPointer(string) == [set |-> TRUE, string |-> string]

----------------------------------------------------------------------------
(* Activity values (credentials.go:177-258) *)

NameOf == <<"A", "B", "C", "D", "E">>

PolicyNames == {NameOf[i] : i \in 1..MaxPolicyNames}

PolicyTypeNames == {"LBCookieStickinessPolicyType", "AppCookieStickinessPolicyType"}

ActivityPolicy == [PolicyName : PolicyNames, PolicyTypeName : PolicyTypeNames]

ActivityLoadBalancerListener == [PolicyNames : {<<n>> : n \in PolicyNames}]

ActivityBackendServer == [PolicyNames : {<<n>> : n \in PolicyNames}]

ExtraPolicy == [PolicyName |-> NameOf[1], PolicyTypeName |-> "LBCookieStickinessPolicyType"]

\* A policy list has any first policy; further members repeat one policy.
PolicyDescriptionLists ==
    UNION {{[i \in 1..k |-> IF i = 1 THEN p ELSE ExtraPolicy] : p \in ActivityPolicy}
           : k \in 1..MaxPolicyDescriptions}

\* The references of a load balancer: each is a listener or a backend
\* server naming one policy.
References == SeqsUpTo({"listener", "backend"} \X PolicyNames, MaxReferences)

MembersOf(references, kind) ==
    LET members == SelectSeq(references, LAMBDA r : r[1] = kind)
    IN [i \in DOMAIN members |-> [PolicyNames |-> <<members[i][2]>>]]

\* Load balancers without policies, with every layout of references.
LoadBalancerValues ==
    {[PolicyDescriptions |-> <<>>,
      Listeners |-> MembersOf(references, "listener"),
      BackendServers |-> MembersOf(references, "backend")] : references \in References}

\* Load balancers carrying policies, alone or mixed with a listener.
PolicyValues ==
    [PolicyDescriptions : PolicyDescriptionLists,
     Listeners : {<<>>, <<[PolicyNames |-> <<NameOf[1]>>]>>},
     BackendServers : {<<>>}]

ActivityLoadBalancer == LoadBalancerValues \cup PolicyValues

ExtraLoadBalancer == [PolicyDescriptions |-> <<>>, Listeners |-> <<>>, BackendServers |-> <<>>]

\* The decoded form of an XML activity value: the decode error, or the
\* load balancer members (none, one, or several of one kind).
ActivityDescriptions ==
    {[err |-> XmlSyntaxError, LoadBalancers |-> <<>>]} \cup
    {[err |-> Nil, LoadBalancers |-> <<>>]} \cup
    {[err |-> Nil, LoadBalancers |-> <<lb>>] : lb \in ActivityLoadBalancer} \cup
    UNION {{[err |-> Nil, LoadBalancers |-> [i \in 1..k |-> lb]]
            : lb \in {ExtraLoadBalancer,
                      [ExtraLoadBalancer EXCEPT !.PolicyDescriptions = <<ExtraPolicy>>]}}
           : k \in 2..MaxLoadBalancers}

\* A sample of the values: at most one load balancer, policy, listener.
SampleValues ==
    {value \in ActivityDescriptions :
        /\ Len(value.LoadBalancers) <= 1
        /\ \A i \in DOMAIN value.LoadBalancers :
              LET loadBalancer == value.LoadBalancers[i]
              IN /\ Len(loadBalancer.PolicyDescriptions) <= 1
                 /\ \A j \in DOMAIN loadBalancer.PolicyDescriptions :
                       loadBalancer.PolicyDescriptions[j].PolicyTypeName = ExtraPolicy.PolicyTypeName
                 /\ Len(loadBalancer.Listeners) <= 1
                 /\ loadBalancer.BackendServers = <<>>}

ActivityDescriptionsString(descriptions) ==
    [activityDescriptions |-> [LoadBalancers |-> descriptions.LoadBalancers],
     err |-> descriptions.err]

----------------------------------------------------------------------------
(* HAProxy configuration text and its parsed form (config-parser)          *)
(* A text is a sequence of lines <<keyword, argument>>; a parsed           *)
(* configuration maps a section <<type, name>> to its attributes.          *)

SectionTypes == {"global", "defaults", "frontend", "backend"}

SectionOrder == <<<<"global", "">>, <<"defaults", "">>,
                  <<"frontend", "http-8080">>, <<"backend", "backend-http-8080">>>>

AttributeOrder == <<"maxconn", "user", "mode", "bind", "balance", "log", "log-format",
                    "option forwardfor", "timeout connect", "timeout client",
                    "timeout server", "default_backend", "http-request",
                    "http-response", "cookie", "server">>

\* credentials.go:71-85
TemplateConf ==
    <<<<"#", "template">>,
      <<"global", "">>, <<"maxconn", "100000">>,
      <<"#", "drop privileges after port binding">>, <<"user", "servo">>,
      <<"defaults", "">>, <<"timeout connect", "5s">>, <<"timeout client", "1m">>,
      <<"timeout server", "1m">>>>

\* credentials.go:87-121
ExampleConf ==
    <<<<"global", "">>, <<"maxconn", "100000">>, <<"user", "servo">>,
      <<"defaults", "">>, <<"timeout connect", "5">>, <<"timeout client", "60">>,
      <<"timeout server", "60">>,
      <<"frontend", "http-8080">>, <<"#", "lb-balancer-1">>, <<"mode", "http">>,
      <<"option forwardfor", "except 127.0.0.1">>, <<"bind", "10.111.10.233:8080">>,
      <<"timeout client", "60s">>, <<"default_backend", "backend-http-8080">>,
      <<"backend", "backend-http-8080">>, <<"mode", "http">>, <<"balance", "roundrobin">>,
      <<"timeout server", "60s">>,
      <<"server", "http-8080 10.111.10.215:8080 cookie MTAuMTExLjEwLjIxNQ==">>>>

Templates == {TemplateConf, ExampleConf}

NoAttributes == [k \in {} |-> ""]

EmptyConfiguration == [s \in {} |-> NoAttributes]

SetAttributes(section, attributes) ==
    [k \in DOMAIN section \cup DOMAIN attributes |->
        IF k \in DOMAIN attributes THEN attributes[k] ELSE section[k]]

SetSection(parsed, section, attributes) ==
    [s \in DOMAIN parsed \cup {section} |-> IF s = section THEN attributes ELSE parsed[s]]

\* Parser.ParseData: a section line opens a section, an attribute line is
\* stored in the open section, comments are dropped.
RECURSIVE ParseLines(_, _, _)
ParseLines(lines, section, parsed) ==
    IF lines = <<>> THEN parsed
    ELSE LET line == Head(lines)
         IN IF line[1] \in SectionTypes
            THEN ParseLines(Tail(lines), line,
                            IF line \in DOMAIN parsed THEN parsed
                            ELSE SetSection(parsed, line, NoAttributes))
            ELSE IF line[1] = "#" \/ section = <<>>
            THEN ParseLines(Tail(lines), section, parsed)
            ELSE ParseLines(Tail(lines), section,
                            SetSection(parsed, section,
                                       SetAttributes(parsed[section], (line[1] :> line[2]))))

\* The parser's outcome for a text it rejects is decided outside this
\* repository: parseErr is the library's verdict.
HaproxyConfigurationString(configuration, parseErr) ==
    IF parseErr THEN [haproxyConfiguration |-> EmptyConfiguration, err |-> TemplateParseError]
    ELSE [haproxyConfiguration |-> ParseLines(configuration, <<>>, EmptyConfiguration),
          err |-> Nil]

SectionString(parsed, section) ==
    LET names == SelectSeq(AttributeOrder, LAMBDA k : k \in DOMAIN parsed[section])
    IN <<section>> \o [i \in 1..Len(names) |-> <<names[i], parsed[section][names[i]]>>]

\* Parser.String: sections and attributes in the parser's own order.
String(parsed) ==
    LET sections == SelectSeq(SectionOrder, LAMBDA s : s \in DOMAIN parsed)
    IN Flatten([i \in 1..Len(sections) |-> SectionString(parsed, sections[i])])

\* Slip: the section created is all the document keeps.
UpdateConfigurationSectionAlone(haproxyConfiguration, sectionType, sectionName, attributes, order) ==
    LET section == <<sectionType, sectionName>>
    IN IF section \in DOMAIN haproxyConfiguration
       THEN [haproxyConfiguration |-> haproxyConfiguration, err |-> ErrSectionAlreadyExists]
       ELSE [haproxyConfiguration |-> SetSection(EmptyConfiguration, section, attributes),
             err |-> Nil]

\* The orders in which the runtime may range over a map of attributes.
AttributeRanges == {AttributeOrder, Reverse(AttributeOrder)}

\* Parser.Set, once for each name in turn.
RECURSIVE SetEach(_, _, _)
SetEach(section, attributes, names) ==
    IF names = <<>> THEN section
    ELSE SetEach(SetAttributes(section, (Head(names) :> attributes[Head(names)])),
                 attributes, Tail(names))

\* Parser.SectionsCreate refuses a section that exists; Parser.Set stores
\* each attribute under its name, in the order the map is ranged over.
UpdateConfigurationSection(haproxyConfiguration, sectionType, sectionName, attributes, order) ==
    LET section == <<sectionType, sectionName>>
        ranged == SelectSeq(order, LAMBDA k : k \in DOMAIN attributes)
    IN IF section \in DOMAIN haproxyConfiguration
       THEN [haproxyConfiguration |-> haproxyConfiguration, err |-> ErrSectionAlreadyExists]
       ELSE [haproxyConfiguration |->
                 SetSection(haproxyConfiguration, section,
                            SetEach(NoAttributes, attributes, ranged)),
             err |-> Nil]

FrontendAttributes ==
    [k \in {"mode", "bind", "log-format", "log", "option forwardfor", "timeout client",
            "default_backend", "http-request"} |->
        CASE k = "mode" -> "http"
          [] k = "bind" -> "0.0.0.0:8080"
          [] k = "log-format" -> "httplog\\ %Ts\\ %ci\\ %cp"
          [] k = "log" -> "/var/lib/load-balancer-servo/haproxy.sock local2 info"
          [] k = "option forwardfor" -> "except 127.0.0.1"
          [] k = "timeout client" -> "60s"
          [] k = "default_backend" -> "backend-http-8080"
          [] k = "http-request" -> "set-header X-Forwarded-Proto http, set-header X-Forwarded-Port 8080"]

BackendAttributes ==
    [k \in {"mode", "balance", "http-response", "cookie", "server", "timeout server"} |->
        CASE k = "mode" -> "http"
          [] k = "balance" -> "roundrobin"
          [] k = "http-response" -> "set-header Cache-control no-cache=\"set-cookie\""
          [] k = "cookie" -> "AWSELB insert indirect maxidle 300000 maxlife 300000"
          [] k = "server" -> "http-8080 10.111.10.215:8080 cookie MTAuMTExLjEwLjIxNQ=="
          [] k = "timeout server" -> "60s"]

\* Slip: the backend's cookie is named after the first policy attached.
UpdateConfigurationFromPolicies(haproxyConfiguration, loadBalancer, order) ==
    LET frontend == UpdateConfigurationSection(haproxyConfiguration, "frontend",
                                               "http-8080", FrontendAttributes, order)
        cookie == IF loadBalancer.PolicyDescriptions = <<>> THEN BackendAttributes["cookie"]
                  ELSE loadBalancer.PolicyDescriptions[1].PolicyName
    IN IF frontend.err # Nil THEN frontend
       ELSE UpdateConfigurationSection(frontend.haproxyConfiguration, "backend",
                                       "backend-http-8080",
                                       [BackendAttributes EXCEPT !["cookie"] = cookie], order)

\* The load balancer is not read: the attributes are hard-coded.
UpdateConfiguration(haproxyConfiguration, loadBalancer, order) ==
    LET frontend == UpdateConfigurationSection(haproxyConfiguration, "frontend",
                                               "http-8080", FrontendAttributes, order)
    IN IF frontend.err # Nil THEN frontend
       ELSE UpdateConfigurationSection(frontend.haproxyConfiguration, "backend",
                                       "backend-http-8080", BackendAttributes, order)

\* fmt.Sprintf("timeout %s", timeout), for the names used.
TimeoutNames == {"connect", "client", "server", "check"}

TimeoutAttribute(timeout) ==
    CASE timeout = "connect" -> "timeout connect"
      [] timeout = "client" -> "timeout client"
      [] timeout = "server" -> "timeout server"
      [] timeout = "check" -> "timeout check"

\* The type of the data the parser keeps under an attribute.
DataType(attribute) ==
    IF attribute \in {TimeoutAttribute(timeout) : timeout \in TimeoutNames}
    THEN "SimpleTimeout" ELSE "Other"

DefaultsSection == <<"defaults", "">>

\* Parser.Get: the data under an attribute of a section, or ErrFetch.
Get(haproxyConfiguration, section, attribute) ==
    IF section \in DOMAIN haproxyConfiguration /\ attribute \in DOMAIN haproxyConfiguration[section]
    THEN [type |-> DataType(attribute), err |-> Nil]
    ELSE [type |-> "", err |-> ErrFetch]

\* Slip: a timeout that is not there is created.
SetDefaultTimeoutCreating(haproxyConfiguration, timeout, value) ==
    LET attribute == TimeoutAttribute(timeout)
        defaults == IF DefaultsSection \in DOMAIN haproxyConfiguration
                    THEN haproxyConfiguration[DefaultsSection] ELSE NoAttributes
    IN [haproxyConfiguration |->
            SetSection(haproxyConfiguration, DefaultsSection,
                       SetAttributes(defaults, (attribute :> value))),
        err |-> Nil]

SetDefaultTimeout(haproxyConfiguration, timeout, value) ==
    LET attribute == TimeoutAttribute(timeout)
        data == Get(haproxyConfiguration, DefaultsSection, attribute)
    IN IF data.err # Nil
       THEN [haproxyConfiguration |-> haproxyConfiguration, err |-> data.err]
       ELSE IF data.type # "SimpleTimeout"
       THEN [haproxyConfiguration |-> haproxyConfiguration, err |-> InvalidTimeoutType]
       ELSE [haproxyConfiguration |->
                 SetSection(haproxyConfiguration, DefaultsSection,
                            SetAttributes(haproxyConfiguration[DefaultsSection],
                                          (attribute :> value))),
             err |-> Nil]

----------------------------------------------------------------------------
(* The HAProxy configuration handler (haproxy_manager.go)                  *)

NoPolicies == [n \in {} |-> ExtraPolicy]

\* A collaborator invoked during a call, with the registry at that moment.
Event(ev, registry, text, err) == [ev |-> ev, registry |-> registry, text |-> text, err |-> err]

\* What the surroundings decide during one call: the iteration order of the
\* Go map of active policy names, the template supplier's result, the
\* parser's verdict and the configuration receiver's result.
TemplateResults ==
    {[text |-> <<>>, err |-> TemplateReadError]} \cup {[text |-> t, err |-> Nil] : t \in Templates}

Environments(activePolicyNames) ==
    [order : Orderings(activePolicyNames), template : TemplateResults,
     parseErr : BOOLEAN, receiverErr : {Nil, ConfigurationWriteError},
     attributes : AttributeRanges]

NoEnvironment ==
    [order |-> [i \in 1..MaxPolicyNames |-> NameOf[i]],
     template |-> [text |-> TemplateConf, err |-> Nil],
     parseErr |-> FALSE, receiverErr |-> Nil, attributes |-> AttributeOrder]

Result(err, policies, events, attached) ==
    [err |-> err, Policies |-> policies, events |-> events, attached |-> attached]

\* Slip: a policy already stored under the name is kept.
StorePolicyIfAbsent(policies, name, activityPolicy) ==
    [n \in DOMAIN policies \cup {name} |->
        IF n \in DOMAIN policies THEN policies[n] ELSE activityPolicy]

\* PolicyCache.Policies[name] = activityPolicy
StorePolicy(policies, name, activityPolicy) ==
    [n \in DOMAIN policies \cup {name} |-> IF n = name THEN activityPolicy ELSE policies[n]]

HandlePolicy(policies, policy) ==
    LET decoded == ActivityDescriptionsString(policy)
        activityDescriptions == decoded.activityDescriptions
    IN IF /\ decoded.err = Nil
          /\ Len(activityDescriptions.LoadBalancers) = 1
          /\ Len(activityDescriptions.LoadBalancers[1].PolicyDescriptions) = 1
       THEN LET activityPolicy == activityDescriptions.LoadBalancers[1].PolicyDescriptions[1]
                name == activityPolicy.PolicyName
            IN Result(decoded.err, StorePolicy(policies, name, activityPolicy), <<>>, <<>>)
       ELSE Result(decoded.err, policies, <<>>, <<>>)

\* Slip: nothing is purged.
RetainAll(policies, retainKeys) == policies

RetainOnly(policies, retainKeys) ==
    LET stalePolicyNames == {policyName \in DOMAIN policies : policyName \notin retainKeys}
    IN [policyName \in DOMAIN policies \ stalePolicyNames |-> policies[policyName]]

WriteConfiguration(policies, loadBalancer, env) ==
    LET supplied == Event("TemplateSupplier", policies, env.template.text, env.template.err)
        parsed == HaproxyConfigurationString(env.template.text, env.parseErr)
        updated == UpdateConfiguration(parsed.haproxyConfiguration, loadBalancer, env.attributes)
        text == String(updated.haproxyConfiguration)
        received == Event("ConfigurationReceiver", policies, text, env.receiverErr)
        attached == loadBalancer.PolicyDescriptions
    IN IF env.template.err # Nil THEN Result(env.template.err, policies, <<supplied>>, attached)
       ELSE IF parsed.err # Nil THEN Result(parsed.err, policies, <<supplied>>, attached)
       ELSE IF updated.err # Nil THEN Result(updated.err, policies, <<supplied>>, attached)
       ELSE Result(env.receiverErr, policies, <<supplied, received>>, attached)

ActivePolicyNames(loadBalancer) ==
    UNION {Range(loadBalancer.Listeners[i].PolicyNames) : i \in DOMAIN loadBalancer.Listeners}
    \cup
    UNION {Range(loadBalancer.BackendServers[i].PolicyNames)
           : i \in DOMAIN loadBalancer.BackendServers}

HandleLoadBalancer(policies, value, env) ==
    LET decoded == ActivityDescriptionsString(value)
        activityDescriptions == decoded.activityDescriptions
    IN IF /\ decoded.err = Nil
          /\ Len(activityDescriptions.LoadBalancers) = 1
          /\ Len(activityDescriptions.LoadBalancers[1].PolicyDescriptions) = 0
       THEN LET loadBalancer == activityDescriptions.LoadBalancers[1]
                activePolicyNames == ActivePolicyNames(loadBalancer)
                \* the map is ranged over in an order the runtime picks
                ranged == SelectSeq(env.order, LAMBDA n : n \in activePolicyNames)
                missing == {i \in DOMAIN ranged : ranged[i] \notin DOMAIN policies}
            IN IF missing # {}
               THEN LET first == CHOOSE i \in missing : \A j \in missing : i <= j
                    IN Result(PolicyNotFound(ranged[first]), policies, <<>>, <<>>)
               ELSE LET resolved ==
                            [loadBalancer EXCEPT !.PolicyDescriptions =
                                [i \in DOMAIN ranged |-> policies[ranged[i]]]]
                        retained == RetainOnly(policies, activePolicyNames)
                        purged == Event("RetainOnly", policies, <<>>, Nil)
                        written == WriteConfiguration(retained, resolved, env)
                    IN Result(written.err, retained, <<purged>> \o written.events,
                              written.attached)
       ELSE Result(decoded.err, policies, <<>>, <<>>)

\* Slip: a name that is neither of the two is handled as a policy update.
SendAnyAsPolicy(policies, name, value, env) ==
    CASE name = "set-loadbalancer" -> HandleLoadBalancer(policies, value, env)
      [] OTHER -> HandlePolicy(policies, value)

Send(policies, name, value, env) ==
    CASE name = "set-policy" -> HandlePolicy(policies, value)
      [] name = "set-loadbalancer" -> HandleLoadBalancer(policies, value, env)
      [] OTHER -> Result(Nil, policies, <<>>, <<>>)

\* Slip: an empty value is handed back as if the handler could receive.
ReceiveEmpty(name) == [result |-> StringPointer(""), err |-> Nil]

Receive(name) == [result |-> NilString, err |-> NotSupported]

\* main.go:47-52
OtherNames == {"get-cloudwatch-metrics", "get-instance-status"}

----------------------------------------------------------------------------
(* The activity value cache (main.go:60-74, 236-274)                       *)
(* A string is the sequence of its characters; a time is a number of       *)
(* seconds since the start of a minute.                                    *)

ActivityCacheSeconds == 300

SetLoadBalancerActivity == "LoadBalancingVmActivities.setLoadBalancer"

SetPolicyActivity == "LoadBalancingVmActivities.setPolicy"

CachedActivities == {SetLoadBalancerActivity, SetPolicyActivity}

CachedValue(time, value) == [Time |-> time, Value |-> value]

\* A map with no key.
EmptyMap == [key \in {} |-> CachedValue(0, <<>>)]

EmptyString == <<>>

LiteralOf ==
    <<<<"<", "a", "/", ">">>,
      <<"<", "b", "/", ">">>,
      <<"<", "c", "/", ">">>>>

Literals == {LiteralOf[i] : i \in 1..MaxCacheValues}

\* fmt.Sprintf("%x", sha1.Sum([]byte(value))), tabulated for the values used.
Sha1OfEmptyString ==
    <<"d", "a", "3", "9", "a", "3", "e", "e", "5", "e",
      "6", "b", "4", "b", "0", "d", "3", "2", "5", "5",
      "b", "f", "e", "f", "9", "5", "6", "0", "1", "8",
      "9", "0", "a", "f", "d", "8", "0", "7", "0", "9">>

Sha1OfLiteral ==
    <<<<"d", "b", "9", "a", "a", "8", "6", "6", "3", "2",
        "c", "6", "f", "2", "c", "c", "9", "9", "6", "8",
        "4", "a", "2", "d", "d", "1", "5", "d", "2", "b",
        "6", "4", "8", "2", "8", "e", "7", "6", "2", "2">>,
      <<"d", "d", "3", "e", "e", "4", "3", "7", "b", "f",
        "c", "1", "8", "c", "7", "f", "b", "0", "d", "c",
        "a", "9", "6", "3", "4", "b", "4", "b", "4", "f",
        "1", "9", "5", "8", "4", "d", "f", "9", "c", "8">>,
      <<"7", "7", "d", "5", "a", "b", "1", "e", "4", "7",
        "c", "a", "1", "a", "9", "f", "8", "b", "0", "a",
        "a", "a", "c", "5", "1", "5", "7", "4", "8", "a",
        "3", "3", "c", "5", "a", "3", "b", "8", "2", "2">>>>

\* A payload with a run of forty hexadecimal digits in it.
HexPayload == <<"<">> \o Sha1OfLiteral[1] \o <<">">>

Sha1OfHexPayload ==
    <<"7", "c", "7", "0", "6", "2", "8", "c", "1", "1",
      "e", "f", "0", "8", "2", "2", "d", "8", "0", "a",
      "b", "8", "a", "1", "6", "8", "2", "4", "c", "e",
      "9", "9", "f", "6", "d", "1", "5", "e", "8", "2">>

Sha1Hex(value) ==
    IF value = EmptyString THEN Sha1OfEmptyString
    ELSE IF value = HexPayload THEN Sha1OfHexPayload
    ELSE Sha1OfLiteral[CHOOSE i \in DOMAIN LiteralOf : LiteralOf[i] = value]

HexDigits ==
    {"0", "1", "2", "3", "4", "5", "6", "7", "8", "9",
     "a", "b", "c", "d", "e", "f", "A", "B", "C", "D", "E", "F"}

HashLength == 40

\* regexp.MatchString("[0-9a-fA-F]{40}", value): some run of forty digits.
MatchString(value) ==
    \E start \in 1..(Len(value) - HashLength + 1) :
        \A i \in start..(start + HashLength - 1) : value[i] \in HexDigits

CacheValues == {EmptyString, HexPayload} \cup Literals

CacheInputs == CacheValues \cup {Sha1Hex(value) : value \in CacheValues}

NoValues == [activity \in CachedActivities |-> EmptyMap]

\* time.Time.Second(): the second within the minute.
Second(time) == time % 60

StaleKeys(valueCache, timeNow) ==
    {key \in DOMAIN valueCache :
        Second(timeNow) > Second(valueCache[key].Time) + ActivityCacheSeconds}

cacheMaintain(values, activity, timeNow) ==
    LET valueCache == values[activity]
        staleKeys == StaleKeys(valueCache, timeNow)
    IN [values EXCEPT ![activity] = [key \in DOMAIN valueCache \ staleKeys |-> valueCache[key]]]

\* Slip: the literal value itself is taken for the key.
valueSha1Unhashed(match, input) == input

\* The key: the input when it matches the pattern, else the input's digest.
valueSha1(match, input) == IF match THEN input ELSE Sha1Hex(input)

\* Slip: a miss hands the input back.
LookupOrInput(valueCache, input) ==
    IF input \in DOMAIN valueCache THEN valueCache[input].Value ELSE input

Lookup(valueCache, input) ==
    IF input \in DOMAIN valueCache THEN valueCache[input].Value ELSE EmptyString

\* Slip: an entry that exists keeps the time it has.
PutKeepingTime(valueCache, key, timeNow, value) ==
    [k \in DOMAIN valueCache \cup {key} |->
        IF k \in DOMAIN valueCache THEN valueCache[k] ELSE CachedValue(timeNow, value)]

Put(valueCache, key, timeNow, value) ==
    [k \in DOMAIN valueCache \cup {key} |->
        IF k = key THEN CachedValue(timeNow, value) ELSE valueCache[k]]

\* The value handed back, the cache afterwards and the keys swept.
activityValueCache(values, activity, input, timeNow) ==
    LET valueCache == values[activity]
        match == MatchString(input)
        value == IF match THEN Lookup(valueCache, input) ELSE input
        key == valueSha1(match, input)
        stored == IF value # EmptyString
                  THEN [values EXCEPT ![activity] = Put(valueCache, key, timeNow, value)]
                  ELSE values
    IN [value |-> value,
        values |-> cacheMaintain(stored, activity, timeNow),
        swept |-> StaleKeys(stored[activity], timeNow)]

\* The record of the last call on the cache.
NoCacheCall ==
    [op |-> "none", activity |-> "", input |-> EmptyString, value |-> EmptyString,
     time |-> 0, pre |-> NoValues, swept |-> {}, handled |-> {}]

----------------------------------------------------------------------------
(* State machine: calls on the HAProxy configuration handler *)

NoCall ==
    [op |-> "none", handlers |-> <<>>, name |-> "", value |-> [err |-> Nil, LoadBalancers |-> <<>>],
     pre |-> NoPolicies, err |-> Nil, events |-> <<>>, attached |-> <<>>, sends |-> <<>>,
     received |-> NilString]

\* An earlier emission kept for comparison: the template supplied, the load
\* balancer, the policies attached, the order the attributes were set in and
\* the text handed to the receiver.
NoEmission ==
    [set |-> FALSE, template |-> <<>>, loadBalancer |-> ExtraLoadBalancer, attached |-> <<>>,
     attributes |-> AttributeOrder, text |-> <<>>]

----------------------------------------------------------------------------
(* The channel handler (ChannelHandler): Go channels of strings by name    *)

ChannelNotFound(name) == Error("channel not found", name)

\* A Go channel: its capacity (0: unbuffered) and the values it holds.
Channel(capacity) == [capacity |-> capacity, buffer |-> <<>>]

\* The map a channel handler is made with: an unbuffered channel and a
\* buffered one; "set-loadbalancer" has no channel.
NewChannels ==
    ("get-instance-status" :> Channel(0)) @@ ("set-policy" :> Channel(MaxCapacity))

ChannelNames == {"get-instance-status", "set-policy", "set-loadbalancer"}

Goroutines == 1..MaxGoroutines

\* The values sent are told apart by a number.
Values == 1..MaxValues

\* Where a goroutine is in a call on the handler.
Idle == [at |-> "idle", name |-> "", value |-> 0, result |-> 0, err |-> Nil]

\* Slip: a send never waits for room.
CanSendAlways(channel) == TRUE

\* channel <- value goes through when the buffer has room.
CanSend(channel) == Len(channel.buffer) < channel.capacity

\* <-channel goes through when the buffer holds a value.
CanReceive(channel) == Len(channel.buffer) > 0

----------------------------------------------------------------------------
(* Activity tasks: doActivity and the polling loop (main.go:42-75, 144-221) *)

ActivityChannels ==
    ("LoadBalancingVmActivities.getCloudWatchMetrics" :> "get-cloudwatch-metrics") @@
    ("LoadBalancingVmActivities.getInstanceStatus" :> "get-instance-status") @@
    (SetLoadBalancerActivity :> "set-loadbalancer") @@
    (SetPolicyActivity :> "set-policy")

\* The default value of an activity, the empty string where the map has none.
ActivityDefaultValues(activity) ==
    CASE activity = "LoadBalancingVmActivities.getCloudWatchMetrics" ->
            <<"G", "e", "t", "C", "l", "o", "u", "d", "W", "a", "t", "c", "h", "M", "e", "t", "r", "i", "c", "s">>
      [] activity = "LoadBalancingVmActivities.getInstanceStatus" ->
            <<"G", "e", "t", "I", "n", "s", "t", "a", "n", "c", "e", "S", "t", "a", "t", "u", "s">>
      [] OTHER -> EmptyString

NoLastValues == [activity \in CachedActivities |-> EmptyString]

\* ActivityChannels[activity][4:], the name of the file a value is kept in.
StoreName(activity) ==
    CASE activity = SetLoadBalancerActivity -> "loadbalancer"
      [] activity = SetPolicyActivity -> "policy"

\* The record of the last turn of the polling loop.
NoTask ==
    [op |-> "none", pollErr |-> Nil, token |-> NilString, activity |-> "",
     parameter |-> NilString, stored |-> <<>>, sentValue |-> EmptyString, calls |-> <<>>,
     result |-> NilString, err |-> Nil, panic |-> FALSE, responses |-> <<>>]

\* A parsed document with the text it was parsed from and the keys that
\* calls on it were told to set.
NoDocument ==
    [set |-> FALSE, template |-> <<>>, haproxyConfiguration |-> EmptyConfiguration,
     touched |-> {}]

\* The record of the last call on the document.
NoEdit ==
    [op |-> "none", timeout |-> "", value |-> "", section |-> <<>>,
     attributes |-> NoAttributes, pre |-> EmptyConfiguration, err |-> Nil]

Init ==
    /\ Policies = NoPolicies
    /\ call = NoCall
    /\ ActivityValuesBySha1 = NoValues
    /\ clock = 0
    /\ cacheCall = NoCacheCall
    /\ handled = {}
    /\ emitted = NoEmission
    /\ environment = NoEnvironment
    /\ document = NoDocument
    /\ edit = NoEdit
    /\ Channels = NewChannels
    /\ goroutines = [g \in Goroutines |-> Idle]
    /\ sentValues = [name \in DOMAIN NewChannels |-> <<>>]
    /\ receivedValues = [name \in DOMAIN NewChannels |-> <<>>]
    /\ ActivityLastValues = NoLastValues
    /\ task = NoTask

Calling(op, handlers, name, value, result, sends) ==
    /\ Policies' = result.Policies
    /\ call' = [op |-> op, handlers |-> handlers, name |-> name, value |-> value,
                pre |-> Policies, err |-> result.err, events |-> result.events,
                attached |-> result.attached, sends |-> sends, received |-> NilString]

Called(op, handlers, name, value, result, sends) ==
    /\ Calling(op, handlers, name, value, result, sends)
    /\ UNCHANGED <<cacheVars, synthesisVars, configurationVars, channelVars, activityVars>>

Received(op, handlers, name, result, sends) ==
    /\ UNCHANGED <<cacheVars, synthesisVars, configurationVars, channelVars, activityVars>>
    /\ UNCHANGED Policies
    /\ call' = [NoCall EXCEPT !.op = op, !.handlers = handlers, !.name = name,
                              !.pre = Policies, !.err = result.err,
                              !.received = result.result, !.sends = sends]

SendSetPolicy ==
    /\ call.op = "none"
    /\ \E value \in ActivityDescriptions :
          Called("Send", <<>>, "set-policy", value,
                 Send(Policies, "set-policy", value, NoEnvironment), <<>>)

SendSetLoadBalancer ==
    /\ call.op = "none"
    /\ \E value \in ActivityDescriptions :
       \E env \in Environments(UNION {ActivePolicyNames(value.LoadBalancers[i])
                                      : i \in DOMAIN value.LoadBalancers}) :
          Called("Send", <<>>, "set-loadbalancer", value,
                 Send(Policies, "set-loadbalancer", value, env), <<>>)

SendOther ==
    /\ call.op = "none"
    /\ \E name \in OtherNames, value \in SampleValues :
          Called("Send", <<>>, name, value, Send(Policies, name, value, NoEnvironment), <<>>)

ReceiveAny ==
    /\ call.op = "none"
    /\ \E name \in {"set-policy", "set-loadbalancer"} \cup OtherNames :
          Received("Receive", <<>>, name, Receive(name), <<>>)

\* The caller is done with the result of the call.
Return ==
    /\ call.op # "none"
    /\ call' = NoCall
    /\ UNCHANGED Policies
    /\ UNCHANGED <<cacheVars, synthesisVars, configurationVars, channelVars, activityVars>>

----------------------------------------------------------------------------
(* The Redis handler's Send (redis_handler.go) and the composite handler   *)

\* conn.Do(PUBLISH, name, value): the connection decides the result.
RedisSend(name, value, connErr) == connErr

HandlerKinds == {"redis", "haproxy"}

NewCompositeHandler(primary, secondaries) == <<primary>> \o secondaries

CompositeHandlers ==
    {NewCompositeHandler(primary, secondaries) :
        primary \in HandlerKinds, secondaries \in SeqsUpTo(HandlerKinds, MaxSecondaries)}

\* Send on the i-th handler of a composite; outcome holds the registry, the
\* events and the Send invocations so far.
HandlerSend(outcome, handlers, i, name, value, env, connErrs) ==
    LET sent == IF handlers[i] = "haproxy"
                THEN Send(outcome.Policies, name, value, env)
                ELSE Result(RedisSend(name, value, connErrs[i]), outcome.Policies, <<>>, <<>>)
    IN [err |-> sent.err, Policies |-> sent.Policies,
        events |-> outcome.events \o sent.events, attached |-> sent.attached,
        sends |-> Append(outcome.sends,
                         [op |-> "Send", handler |-> i, name |-> name, value |-> value,
                          err |-> sent.err])]

\* Slip: the first secondary that fails ends the fan-out.
RECURSIVE SendSecondariesUntilError(_, _, _, _, _, _, _)
SendSecondariesUntilError(outcome, handlers, i, name, value, env, connErrs) ==
    IF i > Len(handlers) \/ (i > 2 /\ outcome.err # Nil) THEN outcome
    ELSE SendSecondariesUntilError(
             HandlerSend(outcome, handlers, i, name, value, env, connErrs),
             handlers, i + 1, name, value, env, connErrs)

RECURSIVE SendSecondaries(_, _, _, _, _, _, _)
SendSecondaries(outcome, handlers, i, name, value, env, connErrs) ==
    IF i > Len(handlers) THEN outcome
    ELSE SendSecondaries(HandlerSend(outcome, handlers, i, name, value, env, connErrs),
                         handlers, i + 1, name, value, env, connErrs)

\* Slip: the secondaries are sent to whatever the primary returned.
CompositeSendAlways(policies, handlers, name, value, env, connErrs) ==
    LET start == [err |-> Nil, Policies |-> policies, events |-> <<>>, attached |-> <<>>,
                  sends |-> <<>>]
        primary == HandlerSend(start, handlers, 1, name, value, env, connErrs)
    IN [SendSecondaries(primary, handlers, 2, name, value, env, connErrs)
           EXCEPT !.err = primary.err]

CompositeSend(policies, handlers, name, value, env, connErrs) ==
    LET start == [err |-> Nil, Policies |-> policies, events |-> <<>>, attached |-> <<>>,
                  sends |-> <<>>]
        primary == HandlerSend(start, handlers, 1, name, value, env, connErrs)
    IN IF primary.err = Nil
       THEN [SendSecondaries(primary, handlers, 2, name, value, env, connErrs)
                EXCEPT !.err = primary.err]
       ELSE primary

\* The surroundings tried on a composite.
CompositeEnvironments ==
    {[NoEnvironment EXCEPT !.template = template, !.receiverErr = receiverErr] :
        template \in TemplateResults, receiverErr \in {Nil, ConfigurationWriteError}}

CompositeHandlerSend ==
    /\ call.op = "none"
    /\ \E handlers \in CompositeHandlers, name \in {"set-policy", "set-loadbalancer"} \cup OtherNames,
          value \in SampleValues, env \in CompositeEnvironments :
          \E connErrs \in [DOMAIN handlers -> {Nil, RedisError}] :
             LET result == CompositeSend(Policies, handlers, name, value, env, connErrs)
             IN Called("CompositeSend", handlers, name, value, result, result.sends)

\* conn.Do(BLPOP, name-reply, 0): the connection's error, or what it popped;
\* an array of more than one element yields its second element.
RedisReplies ==
    {[popped |-> <<>>, err |-> RedisError]} \cup
    {[popped |-> popped, err |-> Nil] :
        popped \in {<<>>, <<"get-instance-status-reply", "<InstanceStatus/>">>,
                    <<"get-cloudwatch-metrics-reply", "<Metrics/>">>}}

RedisReceive(name, reply) ==
    IF reply.err # Nil THEN [result |-> NilString, err |-> reply.err]
    ELSE [result |-> StringPointer(IF Len(reply.popped) > 1 THEN reply.popped[2]
                                   ELSE "%!s(<nil>)"),
          err |-> Nil]

\* Receive on the i-th handler, with the record of the invocation.
HandlerReceive(handlers, i, name, reply) ==
    LET got == IF handlers[i] = "haproxy" THEN Receive(name) ELSE RedisReceive(name, reply)
    IN [result |-> got.result, err |-> got.err,
        sends |-> <<[op |-> "Receive", handler |-> i, name |-> name,
                     value |-> NoCall.value, err |-> got.err]>>]

\* Slip: the last handler is asked, not the primary.
CompositeReceiveLast(handlers, name, reply) == HandlerReceive(handlers, Len(handlers), name, reply)

CompositeReceive(handlers, name, reply) == HandlerReceive(handlers, 1, name, reply)

\* Close does nothing: no handler is closed.
CompositeClose(handlers) == [result |-> NilString, err |-> Nil, sends |-> <<>>]

CompositeHandlerReceive ==
    /\ call.op = "none"
    /\ \E handlers \in CompositeHandlers, name \in {"set-policy", "set-loadbalancer"} \cup OtherNames,
          reply \in RedisReplies :
          LET result == CompositeReceive(handlers, name, reply)
          IN Received("CompositeReceive", handlers, name, result, result.sends)

CompositeHandlerClose ==
    /\ call.op = "none"
    /\ \E handlers \in CompositeHandlers :
          LET result == CompositeClose(handlers)
          IN Received("CompositeClose", handlers, "", result, result.sends)

NextComposite ==
    CompositeHandlerSend \/ CompositeHandlerReceive \/ CompositeHandlerClose \/ Return

SpecComposite == Init /\ [][NextComposite]_vars

----------------------------------------------------------------------------
(* State machine: calls on the activity value cache, and the clock *)

TickSeconds == {200, 301}

\* Time passes between two calls.
Tick ==
    /\ cacheCall.op = "none"
    /\ \E seconds \in TickSeconds :
          /\ clock + seconds <= MaxTime
          /\ clock' = clock + seconds
    /\ UNCHANGED <<ActivityValuesBySha1, cacheCall, handled, handlerVars, synthesisVars, configurationVars, channelVars, activityVars>>

\* One call of activityValueCache; `handled` keeps the values, digests apart,
\* the cache has handled whose key no sweep has removed since.
CacheActivityValue ==
    /\ cacheCall.op = "none"
    /\ \E activity \in CachedActivities, input \in CacheInputs :
          LET result == activityValueCache(ActivityValuesBySha1, activity, input, clock)
              literal == IF input \in CacheValues \ {EmptyString} THEN {<<activity, input>>}
                         ELSE {}
              kept == {h \in handled \cup literal :
                          ~(h[1] = activity /\ Sha1Hex(h[2]) \in result.swept)}
          IN /\ ActivityValuesBySha1' = result.values
             /\ handled' = kept
             /\ cacheCall' = [op |-> "activityValueCache", activity |-> activity,
                              input |-> input, value |-> result.value, time |-> clock,
                              pre |-> ActivityValuesBySha1, swept |-> result.swept,
                              handled |-> handled]
    /\ UNCHANGED <<clock, handlerVars, synthesisVars, configurationVars, channelVars, activityVars>>

\* The caller is done with the value handed back.
CacheReturn ==
    /\ cacheCall.op # "none"
    /\ cacheCall' = NoCacheCall
    /\ UNCHANGED <<ActivityValuesBySha1, clock, handled, handlerVars, synthesisVars, configurationVars, channelVars, activityVars>>

NextCache == CacheActivityValue \/ Tick \/ CacheReturn

SpecCache == Init /\ [][NextCache]_vars

----------------------------------------------------------------------------
(* State machine: reconciliations, with one earlier emission kept *)

SynthesisPolicyNames == {NameOf[1], NameOf[2]}

\* Policy updates for two names, and load balancers that name none, one or
\* both of them.
SynthesisValues ==
    {[err |-> Nil, LoadBalancers |-> <<[ExtraLoadBalancer EXCEPT !.PolicyDescriptions = <<p>>]>>]
        : p \in [PolicyName : SynthesisPolicyNames, PolicyTypeName : PolicyTypeNames]}
    \cup
    {[err |-> Nil, LoadBalancers |-> <<[ExtraLoadBalancer EXCEPT !.Listeners = l,
                                                                 !.BackendServers = b]>>]
        : l \in {<<>>, <<[PolicyNames |-> <<NameOf[1]>>]>>},
          b \in {<<>>, <<[PolicyNames |-> <<NameOf[2]>>]>>}}

SynthesisSend ==
    /\ call.op = "none"
    /\ \E name \in {"set-policy", "set-loadbalancer"}, value \in SynthesisValues :
       \E env \in Environments(ActivePolicyNames(value.LoadBalancers[1])) :
          /\ Calling("Send", <<>>, name, value, Send(Policies, name, value, env), <<>>)
          /\ environment' = env
    /\ UNCHANGED <<emitted, cacheVars, configurationVars, channelVars, activityVars>>

\* The text the receiver was handed in the last call, with what it was made of.
Emission ==
    LET supplied == CHOOSE i \in DOMAIN call.events : call.events[i].ev = "TemplateSupplier"
        received == CHOOSE i \in DOMAIN call.events : call.events[i].ev = "ConfigurationReceiver"
    IN [set |-> TRUE, template |-> call.events[supplied].text,
        loadBalancer |-> call.value.LoadBalancers[1], attached |-> call.attached,
        attributes |-> environment.attributes, text |-> call.events[received].text]

\* The caller is done with a reconciliation that succeeded; its emission is kept.
Remember ==
    /\ call.op = "Send" /\ call.name = "set-loadbalancer" /\ call.err = Nil
    /\ \E i \in DOMAIN call.events : call.events[i].ev = "ConfigurationReceiver"
    /\ emitted' = Emission
    /\ call' = NoCall
    /\ environment' = NoEnvironment
    /\ UNCHANGED <<Policies, cacheVars, configurationVars, channelVars, activityVars>>

\* The caller is done with the result of the call.
SynthesisReturn ==
    /\ call.op # "none"
    /\ call' = NoCall
    /\ environment' = NoEnvironment
    /\ UNCHANGED <<Policies, emitted, cacheVars, configurationVars, channelVars, activityVars>>

NextSynthesis == SynthesisSend \/ Remember \/ SynthesisReturn

SpecSynthesis == Init /\ [][NextSynthesis]_vars

----------------------------------------------------------------------------
(* State machine: calls on one parsed HAProxy configuration *)

TimeoutValues == {"15s", "1m"}

\* Sections a caller may create, with their attributes.
SectionUpdates ==
    {[section |-> <<"frontend", "http-8080">>, attributes |-> FrontendAttributes],
     [section |-> <<"backend", "backend-http-8080">>, attributes |-> BackendAttributes],
     [section |-> <<"backend", "backend-http-8080">>,
      attributes |-> ("mode" :> "tcp" @@ "timeout server" :> "15s")]}

Edited(op, timeout, value, section, attributes, result) ==
    /\ document' = [document EXCEPT
                        !.haproxyConfiguration = result.haproxyConfiguration,
                        !.touched = @ \cup {<<section, k>> : k \in DOMAIN attributes}]
    /\ edit' = [op |-> op, timeout |-> timeout, value |-> value, section |-> section,
                attributes |-> attributes, pre |-> document.haproxyConfiguration,
                err |-> result.err]
    /\ UNCHANGED <<handlerVars, cacheVars, synthesisVars, channelVars, activityVars>>

ParseTemplate ==
    /\ edit.op = "none"
    /\ \E template \in Templates, parseErr \in BOOLEAN :
          LET parsed == HaproxyConfigurationString(template, parseErr)
          IN /\ document' = IF parsed.err # Nil THEN NoDocument
                            ELSE [set |-> TRUE, template |-> template,
                                  haproxyConfiguration |-> parsed.haproxyConfiguration,
                                  touched |-> {}]
             /\ edit' = [NoEdit EXCEPT !.op = "HaproxyConfigurationString",
                                       !.pre = document.haproxyConfiguration,
                                       !.err = parsed.err]
    /\ UNCHANGED <<handlerVars, cacheVars, synthesisVars, channelVars, activityVars>>

EditSetDefaultTimeout ==
    /\ edit.op = "none"
    /\ document.set
    /\ \E timeout \in TimeoutNames, value \in TimeoutValues :
          Edited("SetDefaultTimeout", timeout, value, DefaultsSection,
                 (TimeoutAttribute(timeout) :> value),
                 SetDefaultTimeout(document.haproxyConfiguration, timeout, value))

EditUpdateConfigurationSection ==
    /\ edit.op = "none"
    /\ document.set
    /\ \E update \in SectionUpdates, order \in AttributeRanges :
          Edited("UpdateConfigurationSection", "", "", update.section, update.attributes,
                 UpdateConfigurationSection(document.haproxyConfiguration, update.section[1],
                                            update.section[2], update.attributes, order))

\* The caller is done with the result of the call.
EditReturn ==
    /\ edit.op # "none"
    /\ edit' = NoEdit
    /\ UNCHANGED <<document, handlerVars, cacheVars, synthesisVars, channelVars, activityVars>>

NextConfiguration ==
    ParseTemplate \/ EditSetDefaultTimeout \/ EditUpdateConfigurationSection \/ EditReturn

SpecConfiguration == Init /\ [][NextConfiguration]_vars

----------------------------------------------------------------------------
(* State machine: goroutines calling Send and Receive on a channel handler *)

notChannelVars == <<handlerVars, cacheVars, synthesisVars, configurationVars, activityVars>>

\* The values that are, or are about to be, in a channel's history.
UsedValues ==
    UNION {Range(sentValues[name]) : name \in DOMAIN sentValues}
    \cup {goroutines[g].value : g \in {h \in Goroutines : goroutines[h].at = "Send"}}

\* Send: the channel is looked up; with a channel the goroutine stands at
\* the send statement, without one it has the error at once.
ChannelSend(g) ==
    /\ goroutines[g].at = "idle"
    /\ Values \ UsedValues # {}
    /\ \E name \in ChannelNames :
          LET value == CHOOSE v \in Values \ UsedValues : \A w \in Values \ UsedValues : v <= w
          IN goroutines' =
                [goroutines EXCEPT ![g] =
                    IF name \in DOMAIN Channels
                    THEN [Idle EXCEPT !.at = "Send", !.name = name, !.value = value]
                    ELSE [Idle EXCEPT !.at = "returned Send", !.name = name, !.value = value,
                                      !.err = ChannelNotFound(name)]]
    /\ UNCHANGED <<Channels, sentValues, receivedValues, notChannelVars>>

\* The send goes through into the buffer, and Send returns nil.
ChannelSendBuffered(g) ==
    /\ goroutines[g].at = "Send"
    /\ LET name == goroutines[g].name
       IN /\ CanSend(Channels[name])
          /\ Channels' = [Channels EXCEPT ![name].buffer = Append(@, goroutines[g].value)]
          /\ sentValues' = [sentValues EXCEPT ![name] = Append(@, goroutines[g].value)]
    /\ goroutines' = [goroutines EXCEPT ![g].at = "returned Send"]
    /\ UNCHANGED <<receivedValues, notChannelVars>>

\* Receive: the channel is looked up, as in Send.
ChannelReceive(g) ==
    /\ goroutines[g].at = "idle"
    /\ \E name \in ChannelNames :
          goroutines' =
             [goroutines EXCEPT ![g] =
                 IF name \in DOMAIN Channels
                 THEN [Idle EXCEPT !.at = "Receive", !.name = name]
                 ELSE [Idle EXCEPT !.at = "returned Receive", !.name = name,
                                   !.err = ChannelNotFound(name)]]
    /\ UNCHANGED <<Channels, sentValues, receivedValues, notChannelVars>>

\* The receive takes the oldest value of the buffer, and Receive returns it.
ChannelReceiveBuffered(g) ==
    /\ goroutines[g].at = "Receive"
    /\ LET name == goroutines[g].name
       IN /\ CanReceive(Channels[name])
          /\ Channels' = [Channels EXCEPT ![name].buffer = Tail(@)]
          /\ receivedValues' = [receivedValues EXCEPT ![name] = Append(@, Head(Channels[name].buffer))]
          /\ goroutines' = [goroutines EXCEPT ![g].at = "returned Receive",
                                              ![g].result = Head(Channels[name].buffer)]
    /\ UNCHANGED <<sentValues, notChannelVars>>

\* A sender and a receiver stand at the same channel with nothing buffered:
\* the value passes from one to the other and both return.
ChannelHandOff(g, h) ==
    /\ goroutines[g].at = "Send"
    /\ goroutines[h].at = "Receive"
    /\ goroutines[g].name = goroutines[h].name
    /\ LET name == goroutines[g].name
       IN /\ Channels[name].buffer = <<>>
          /\ sentValues' = [sentValues EXCEPT ![name] = Append(@, goroutines[g].value)]
          /\ receivedValues' = [receivedValues EXCEPT ![name] = Append(@, goroutines[g].value)]
    /\ goroutines' = [goroutines EXCEPT ![g].at = "returned Send",
                                        ![h].at = "returned Receive",
                                        ![h].result = goroutines[g].value]
    /\ UNCHANGED <<Channels, notChannelVars>>

\* The caller is done with the result of the call.
ChannelReturn(g) ==
    /\ goroutines[g].at \in {"returned Send", "returned Receive"}
    /\ goroutines' = [goroutines EXCEPT ![g] = Idle]
    /\ UNCHANGED <<Channels, sentValues, receivedValues, notChannelVars>>

NextChannel ==
    \E g \in Goroutines :
        \/ ChannelSend(g)
        \/ ChannelSendBuffered(g)
        \/ ChannelReceive(g)
        \/ ChannelReceiveBuffered(g)
        \/ \E h \in Goroutines : ChannelHandOff(g, h)
        \/ ChannelReturn(g)

SpecChannel == Init /\ [][NextChannel]_vars

----------------------------------------------------------------------------
(* State machine: the polling loop, one turn at a time *)

DialError == Error("dial", "")

\* What the Redis server and the workflow service do during one task.
ActivityEnvironments ==
    [dialErr : {Nil, DialError}, sendErr : {Nil, RedisError}, reply : RedisReplies,
     completeErr : {Nil, Error("respond", "complete")},
     failedErr : {Nil, Error("respond", "failed")}]

\* One call on the handler of a task.
HandlerCall(op, name, err) == [op |-> op, name |-> name, err |-> err]

\* Slip: the handler is closed only when no error is returned.
ExitUnclosed(calls, result, err, panic) ==
    [calls |-> IF err # Nil THEN calls ELSE Append(calls, HandlerCall("Close", "", Nil)),
     result |-> result, err |-> err, panic |-> panic]

\* The function is left, by a return or by a panic: the deferred Close runs.
Exit(calls, result, err, panic) ==
    [calls |-> Append(calls, HandlerCall("Close", "", Nil)),
     result |-> result, err |-> err, panic |-> panic]

\* The calls on the handler and what doActivity hands back; a nil result
\* that is dereferenced is a panic.
HandleActivity(name, value, parameter, env) ==
    IF env.dialErr # Nil
    THEN [calls |-> <<>>, result |-> NilString, err |-> env.dialErr, panic |-> FALSE]
    ELSE LET send == HandlerCall("Send", name, RedisSend(name, value, env.sendErr))
         IN IF send.err # Nil THEN Exit(<<send>>, NilString, send.err, FALSE)
            ELSE IF ~parameter.set
            THEN LET got == RedisReceive(name, env.reply)
                     receive == HandlerCall("Receive", name, got.err)
                 \* the error of Receive is dropped; err is still the nil of Send
                 IN IF send.err # Nil THEN Exit(<<send, receive>>, NilString, send.err, FALSE)
                    ELSE IF ~got.result.set THEN Exit(<<send, receive>>, NilString, Nil, TRUE)
                    ELSE Exit(<<send, receive>>, got.result, Nil, FALSE)
            ELSE Exit(<<send>>, NilString, Nil, FALSE)

doActivity(values, lastValues, activity, parameter, env, timeNow) ==
    LET given == IF parameter.set THEN parameter.string ELSE ActivityDefaultValues(activity)
        cached == activity \in DOMAIN lastValues
        cache == IF cached THEN activityValueCache(values, activity, given, timeNow)
                 ELSE [value |-> given, values |-> values, swept |-> {}]
        changed == cached /\ cache.value # lastValues[activity]
        done == HandleActivity(ActivityChannels[activity], cache.value, parameter, env)
    IN [values |-> cache.values,
        lastValues |-> IF changed THEN [lastValues EXCEPT ![activity] = cache.value]
                       ELSE lastValues,
        stored |-> IF changed THEN <<[name |-> StoreName(activity), value |-> cache.value]>>
                   ELSE <<>>,
        sentValue |-> cache.value,
        calls |-> done.calls, result |-> done.result, err |-> done.err,
        panic |-> done.panic]

\* The responses the polling loop attempts for a task that was handled.
Responses(token, done, env) ==
    LET complete == [op |-> "RespondTaskComplete", token |-> token, result |-> done.result,
                     message |-> Nil, err |-> env.completeErr]
        err == IF done.err = Nil THEN env.completeErr ELSE done.err
        failed == [op |-> "RespondTaskFailed", token |-> token, result |-> NilString,
                   message |-> err, err |-> env.failedErr]
    IN (IF done.err = Nil THEN <<complete>> ELSE <<>>) \o (IF err # Nil THEN <<failed>> ELSE <<>>)

Parameters == {NilString, StringPointer(LiteralOf[1]), StringPointer(Sha1OfLiteral[1])}

PollError == Error("poll", "")

\* A poll fails or brings no task: nothing is handled.
PollNothing ==
    /\ task.op = "none"
    /\ \E pollErr \in {Nil, PollError} :
          task' = [NoTask EXCEPT !.op = "pollActivityTasks", !.pollErr = pollErr]
    /\ UNCHANGED <<ActivityLastValues, handlerVars, cacheVars, synthesisVars,
                   configurationVars, channelVars>>

\* A poll brings a task: doActivity handles it and the loop responds; a
\* panic ends the process before any response.
PollTask ==
    /\ task.op = "none"
    /\ \E activity \in DOMAIN ActivityChannels, parameter \in Parameters,
          env \in ActivityEnvironments :
          LET token == StringPointer("token")
              done == doActivity(ActivityValuesBySha1, ActivityLastValues, activity,
                                 parameter, env, clock)
          IN /\ ActivityValuesBySha1' = done.values
             /\ ActivityLastValues' = done.lastValues
             /\ task' = [op |-> "pollActivityTasks", pollErr |-> Nil, token |-> token,
                         activity |-> activity, parameter |-> parameter,
                         stored |-> done.stored, sentValue |-> done.sentValue,
                         calls |-> done.calls, result |-> done.result, err |-> done.err,
                         panic |-> done.panic,
                         responses |-> IF done.panic THEN <<>>
                                       ELSE Responses(token.string, done, env)]
    /\ UNCHANGED <<clock, cacheCall, handled, handlerVars, synthesisVars,
                   configurationVars, channelVars>>

\* The loop goes round, unless the process has ended.
PollAgain ==
    /\ task.op # "none"
    /\ ~task.panic
    /\ task' = NoTask
    /\ UNCHANGED <<ActivityLastValues, handlerVars, cacheVars, synthesisVars,
                   configurationVars, channelVars>>

NextActivity == PollNothing \/ PollTask \/ PollAgain

SpecActivity == Init /\ [][NextActivity]_vars

Next == SendSetPolicy \/ SendSetLoadBalancer \/ SendOther \/ ReceiveAny \/ Return

Spec == Init /\ [][Next]_vars

----------------------------------------------------------------------------
(* Properties *)

\* The shapes of a decoded value, as the specification classifies them.
TheLoadBalancer == call.value.LoadBalancers[1]

WellFormedLoadBalancer ==
    /\ call.value.err = Nil
    /\ Len(call.value.LoadBalancers) = 1
    /\ TheLoadBalancer.PolicyDescriptions = <<>>

WellFormedPolicy ==
    /\ call.value.err = Nil
    /\ Len(call.value.LoadBalancers) = 1
    /\ Len(TheLoadBalancer.PolicyDescriptions) = 1
    /\ TheLoadBalancer.Listeners = <<>>
    /\ TheLoadBalancer.BackendServers = <<>>

MalformedShape ==
    /\ call.value.err = Nil
    /\ \/ Len(call.value.LoadBalancers) # 1
       \/ call.name = "set-policy" /\ ~WellFormedPolicy
       \/ call.name = "set-loadbalancer" /\ ~WellFormedLoadBalancer

\* The policy names the load balancer's listeners and backend servers name.
Referenced ==
    {n \in PolicyNames :
        \/ \E i \in DOMAIN TheLoadBalancer.Listeners :
              \E j \in DOMAIN TheLoadBalancer.Listeners[i].PolicyNames :
                 TheLoadBalancer.Listeners[i].PolicyNames[j] = n
        \/ \E i \in DOMAIN TheLoadBalancer.BackendServers :
              \E j \in DOMAIN TheLoadBalancer.BackendServers[i].PolicyNames :
                 TheLoadBalancer.BackendServers[i].PolicyNames[j] = n}

Reconciliation ==
    call.op = "Send" /\ call.name = "set-loadbalancer" /\ WellFormedLoadBalancer

ReceiverInvocations == {i \in DOMAIN call.events : call.events[i].ev = "ConfigurationReceiver"}

SupplierInvocations == {i \in DOMAIN call.events : call.events[i].ev = "TemplateSupplier"}

\* C1: a load balancer that references a policy name absent from the
\* registry makes Send("set-loadbalancer") return a policy-not-found error
\* naming a missing policy; the configuration receiver is not invoked and
\* the registry is what it was before the call.
FailClosedResolution ==
    (Reconciliation /\ Referenced \ DOMAIN call.pre # {}) =>
        /\ call.err.kind = "policy not found"
        /\ call.err.detail \in Referenced \ DOMAIN call.pre
        /\ ReceiverInvocations = {}
        /\ Policies = call.pre

FailClosedResolutionWitness ==
    /\ Reconciliation
    /\ Referenced \ DOMAIN call.pre # {}
    /\ Referenced \cap DOMAIN call.pre # {}
    /\ call.err.kind = "policy not found"

\* C2: after a load-balancer reconciliation that returns success the names
\* in the registry are exactly the names the load balancer references.
RetainOnlyGC ==
    (Reconciliation /\ call.err = Nil) => DOMAIN Policies = Referenced

RetainOnlyGCWitness ==
    /\ Reconciliation
    /\ call.err = Nil
    /\ Cardinality(Referenced) = 2
    /\ Cardinality(DOMAIN call.pre) = 3
    /\ Cardinality(DOMAIN Policies) = 2

\* C3: within a reconciliation retainOnly runs only after the configuration
\* receiver returned success; the receiver sees the registry as it was
\* before the call, and a receiver error leaves the registry as it was.
GCAfterEmission ==
    Reconciliation =>
        /\ \A i \in DOMAIN call.events :
              call.events[i].ev = "RetainOnly" =>
                  \E j \in ReceiverInvocations : j < i /\ call.events[j].err = Nil
        /\ \A j \in ReceiverInvocations : call.events[j].registry = call.pre
        /\ call.err.kind = "configuration receiver" => Policies = call.pre

\* C4: a reconciliation whose policies all resolve and whose synthesis fails
\* (template supplier, template parse, section write) returns that error
\* without invoking the receiver and with the registry as before the call.
SynthesisFailureSideEffectFree ==
    (/\ Reconciliation
     /\ Referenced \subseteq DOMAIN call.pre
     /\ call.err.kind \in {"template supplier", "template parse", "section already exists"})
    => (ReceiverInvocations = {} /\ Policies = call.pre)

\* C5: a policy name leaves the registry only in a load-balancer
\* reconciliation that returns success.
UpsertNotLost ==
    [][\A n \in DOMAIN Policies :
          n \notin DOMAIN Policies' =>
              (call'.name = "set-loadbalancer" /\ call'.err = Nil)]_vars

\* C6: Send("set-policy") with a well-formed policy-only value for name N
\* returns success, stores the whole new policy under N, leaves every other
\* entry as it was and invokes neither the template supplier nor the
\* configuration receiver.
PolicyOnlyUpdate ==
    (call.op = "Send" /\ call.name = "set-policy" /\ WellFormedPolicy) =>
        LET policy == TheLoadBalancer.PolicyDescriptions[1]
        IN /\ call.err = Nil
           /\ DOMAIN Policies = DOMAIN call.pre \cup {policy.PolicyName}
           /\ Policies[policy.PolicyName] = policy
           /\ \A n \in DOMAIN call.pre \ {policy.PolicyName} : Policies[n] = call.pre[n]
           /\ call.events = <<>>

PolicyOnlyUpdateWitness ==
    /\ call.op = "Send" /\ call.name = "set-policy" /\ WellFormedPolicy
    /\ LET policy == TheLoadBalancer.PolicyDescriptions[1]
       IN /\ policy.PolicyName \in DOMAIN call.pre
          /\ call.pre[policy.PolicyName] # policy
          /\ Policies[policy.PolicyName] = policy
          /\ DOMAIN call.pre # {policy.PolicyName}

\* C7: Send returns an error for a decoded value of malformed shape: zero
\* or several load balancers, a set-policy value with zero or several
\* policies or with listeners or backend servers, a set-loadbalancer value
\* carrying policies.
MalformedRejected ==
    (call.op = "Send" /\ call.name \in {"set-policy", "set-loadbalancer"} /\ MalformedShape)
    => call.err # Nil

\* C8: a value that is neither a valid policy-only shape nor a valid
\* load-balancer shape, undecodable input included, leaves the registry
\* unchanged and invokes neither the template supplier nor the receiver.
MalformedMutatesNothing ==
    (/\ call.op = "Send"
     /\ call.name \in {"set-policy", "set-loadbalancer"}
     /\ (call.value.err # Nil \/ MalformedShape))
    => (Policies = call.pre /\ call.events = <<>>)

\* C9: once every referenced policy is registered, Send("set-loadbalancer")
\* with a parseable template and a non-failing receiver returns no error
\* and invokes the receiver exactly once with the synthesized text: the only
\* errors are the supplier's, the parser's and the receiver's.
PolicyThenLoadBalancerSucceeds ==
    (Reconciliation /\ Referenced \subseteq DOMAIN call.pre) =>
        /\ call.err.kind \in {"nil", "template supplier", "template parse",
                              "configuration receiver"}
        /\ call.err = Nil =>
              /\ Cardinality(ReceiverInvocations) = 1
              /\ \A j \in ReceiverInvocations : call.events[j].text # <<>>

\* C10: when the primary's Send returns an error the composite invokes no
\* secondary's Send and returns exactly the primary's error.
CompositePrimaryFails ==
    (call.op = "CompositeSend" /\ call.sends[1].err # Nil) =>
        /\ Len(call.sends) = 1
        /\ call.sends[1].handler = 1
        /\ call.err = call.sends[1].err

CompositePrimaryFailsWitness ==
    /\ call.op = "CompositeSend"
    /\ Len(call.handlers) = 3
    /\ call.handlers[1] = "haproxy"
    /\ call.sends[1].err.kind = "policy not found"
    /\ Len(call.sends) = 1

\* C11: when the primary's Send succeeds the composite invokes Send on the
\* primary first and then once on every secondary, in order, with the same
\* name and value; a failing secondary stops nothing and the composite
\* returns success.
CompositePrimarySucceeds ==
    (call.op = "CompositeSend" /\ call.sends[1].err = Nil) =>
        /\ Len(call.sends) = Len(call.handlers)
        /\ \A i \in DOMAIN call.sends :
              /\ call.sends[i].op = "Send"
              /\ call.sends[i].handler = i
              /\ call.sends[i].name = call.name
              /\ call.sends[i].value = call.value
        /\ call.err = Nil

CompositePrimarySucceedsWitness ==
    /\ call.op = "CompositeSend"
    /\ Len(call.handlers) = 3
    /\ Len(call.sends) = 3
    /\ call.sends[1].err = Nil
    /\ call.sends[2].err # Nil
    /\ call.err = Nil

\* C12: a composite invokes nothing but Send on a secondary: Receive asks
\* the primary only and returns its result and error unchanged, Close
\* invokes no handler.
CompositeSecondariesOnlySent ==
    /\ call.op \in {"CompositeSend", "CompositeReceive", "CompositeClose"} =>
          \A i \in DOMAIN call.sends :
             call.sends[i].handler > 1 => call.sends[i].op = "Send"
    /\ call.op = "CompositeReceive" =>
          /\ Len(call.sends) = 1
          /\ call.sends[1].op = "Receive"
          /\ call.sends[1].handler = 1
          /\ call.err = call.sends[1].err
          /\ call.handlers[1] = "haproxy" => (call.err = NotSupported /\ call.received = NilString)
          /\ call.handlers[1] = "redis" => (call.err = Nil <=> call.received.set)
    /\ call.op = "CompositeClose" => call.sends = <<>>

CompositeSecondariesOnlySentWitness ==
    /\ call.op = "CompositeReceive"
    /\ Len(call.handlers) = 3
    /\ call.handlers = <<"redis", "haproxy", "redis">>
    /\ call.received = StringPointer("<InstanceStatus/>")

\* C13: Receive on the HAProxy configuration handler fails with "not
\* supported" for every name, returns no value and changes neither the
\* registry nor any configuration.
ReceiveNotSupported ==
    call.op = "Receive" =>
        /\ call.err = NotSupported
        /\ call.received = NilString
        /\ Policies = call.pre
        /\ call.events = <<>>

ReceiveNotSupportedWitness ==
    /\ call.op = "Receive"
    /\ call.name = "set-loadbalancer"
    /\ DOMAIN Policies # {}
    /\ call.err # Nil

\* What the claims on the cache speak of: a digest is a string of exactly
\* forty hexadecimal digits, an entry is stale at a time when more than the
\* cache time has elapsed since its last access.
IsDigest(string) ==
    /\ Len(string) = HashLength
    /\ \A i \in DOMAIN string : string[i] \in HexDigits

Stale(cachedValue, time) == time - cachedValue.Time > ActivityCacheSeconds

CacheCalled == cacheCall.op = "activityValueCache"

\* C14: on a stream with a sub-cache, once the cache has handled a non-empty
\* literal value V, handling the digest of V on the same stream returns V,
\* as long as no sweep removed that key in between.
DedupRoundTrip ==
    CacheCalled =>
        \A h \in cacheCall.handled :
            (h[1] = cacheCall.activity /\ ~IsDigest(h[2]) /\ cacheCall.input = Sha1Hex(h[2]))
                => cacheCall.value = h[2]

\* C15: in every state, on every stream, the key of every cache entry is the
\* lower-case hex SHA-1 of the entry's own value.
ContentAddressed ==
    \A activity \in CachedActivities :
        \A key \in DOMAIN ActivityValuesBySha1[activity] :
            key = Sha1Hex(ActivityValuesBySha1[activity][key].Value)

ContentAddressedWitness ==
    /\ CacheCalled
    /\ cacheCall.input = Sha1OfLiteral[1]
    /\ cacheCall.value = LiteralOf[1]
    /\ cacheCall.time > 0
    /\ \A activity \in CachedActivities : DOMAIN ActivityValuesBySha1[activity] # {}

\* C16: after a cache call on a stream has swept, no entry of that stream's
\* sub-cache is left whose last access lies more than 300 seconds back.
TTLPurge ==
    CacheCalled =>
        \A key \in DOMAIN ActivityValuesBySha1[cacheCall.activity] :
            ~Stale(ActivityValuesBySha1[cacheCall.activity][key], cacheCall.time)

\* C17: a lookup by digest that finds an entry last accessed more than 300
\* seconds before the lookup yields the empty (absent) value, not the
\* entry's value.
StaleNeverReturned ==
    (/\ CacheCalled
     /\ IsDigest(cacheCall.input)
     /\ cacheCall.input \in DOMAIN cacheCall.pre[cacheCall.activity]
     /\ Stale(cacheCall.pre[cacheCall.activity][cacheCall.input], cacheCall.time))
        => cacheCall.value = EmptyString

\* C18: a string that is not exactly forty hexadecimal digits is returned
\* unchanged and, when it is not empty, is registered under its own digest.
LiteralsPassThrough ==
    (CacheCalled /\ ~IsDigest(cacheCall.input)) =>
        /\ cacheCall.value = cacheCall.input
        /\ cacheCall.input # EmptyString =>
              /\ Sha1Hex(cacheCall.input) \in DOMAIN ActivityValuesBySha1[cacheCall.activity]
              /\ ActivityValuesBySha1[cacheCall.activity][Sha1Hex(cacheCall.input)].Value
                    = cacheCall.input

\* C19: a string that matches the digest pattern and is no key of the
\* stream's sub-cache yields the empty (absent) value, creates no entry
\* under that key and changes no entry that is not stale.
LookupMiss ==
    (/\ CacheCalled
     /\ MatchString(cacheCall.input)
     /\ cacheCall.input \notin DOMAIN cacheCall.pre[cacheCall.activity])
        => /\ cacheCall.value = EmptyString
           /\ cacheCall.input \notin DOMAIN ActivityValuesBySha1[cacheCall.activity]
           /\ \A activity \in CachedActivities :
                 \A key \in DOMAIN cacheCall.pre[activity] :
                    ~Stale(cacheCall.pre[activity][key], cacheCall.time) =>
                        /\ key \in DOMAIN ActivityValuesBySha1[activity]
                        /\ ActivityValuesBySha1[activity][key] = cacheCall.pre[activity][key]

LookupMissWitness ==
    /\ CacheCalled
    /\ cacheCall.input = Sha1OfLiteral[2]
    /\ cacheCall.input \notin DOMAIN cacheCall.pre[cacheCall.activity]
    /\ Sha1OfLiteral[1] \in DOMAIN cacheCall.pre[cacheCall.activity]
    /\ Sha1OfLiteral[2] \in DOMAIN cacheCall.pre[SetPolicyActivity]
    /\ cacheCall.activity = SetLoadBalancerActivity

\* C20: two successful load-balancer reconciliations with the same template
\* text, the same load balancer and the same resolved policies hand the
\* receiver the same text, whatever was reconciled before and whatever the
\* order the attributes and the policy names were ranged over.
IdempotentSynthesis ==
    (/\ Reconciliation
     /\ call.err = Nil
     /\ ReceiverInvocations # {}
     /\ emitted.set
     /\ emitted.template = Emission.template
     /\ emitted.loadBalancer = TheLoadBalancer
     /\ Range(emitted.attached) = Range(call.attached))
        => Emission.text = emitted.text

IdempotentSynthesisWitness ==
    /\ Reconciliation
    /\ call.err = Nil
    /\ ReceiverInvocations # {}
    /\ emitted.set
    /\ emitted.template = Emission.template
    /\ emitted.loadBalancer = TheLoadBalancer
    /\ Range(emitted.attached) = Range(call.attached)
    /\ Len(call.attached) = 2
    /\ emitted.attached # call.attached
    /\ emitted.attributes # environment.attributes
    /\ Emission.text # <<>>

\* The policy names of a load balancer as a scan of its listeners and then
\* its backend servers meets them, each at its first occurrence.
ScannedNames(loadBalancer) ==
    Flatten([i \in DOMAIN loadBalancer.Listeners |-> loadBalancer.Listeners[i].PolicyNames])
    \o Flatten([i \in DOMAIN loadBalancer.BackendServers |->
                   loadBalancer.BackendServers[i].PolicyNames])

RECURSIVE FirstOccurrences(_)
FirstOccurrences(names) ==
    IF names = <<>> THEN <<>>
    ELSE LET front == FirstOccurrences(SubSeq(names, 1, Len(names) - 1))
             last == names[Len(names)]
         IN IF last \in Range(front) THEN front ELSE Append(front, last)

\* C24: a reconciliation that resolved every referenced name attaches the
\* registry's policy for each referenced name exactly once, in the order of
\* first occurrence in a scan of the listeners and then the backend servers.
ResolutionOrder ==
    (Reconciliation /\ Referenced \subseteq DOMAIN call.pre) =>
        LET names == FirstOccurrences(ScannedNames(TheLoadBalancer))
        IN call.attached = [i \in DOMAIN names |-> call.pre[names[i]]]

\* C26: a hit by digest sets the entry's time to the time of the lookup,
\* and an entry whose last access lies no more than 300 seconds back is
\* still in the sub-cache after the sweep.
LastAccessRefreshed ==
    CacheCalled =>
        LET before == cacheCall.pre[cacheCall.activity]
            after == ActivityValuesBySha1[cacheCall.activity]
        IN /\ (MatchString(cacheCall.input) /\ cacheCall.input \in DOMAIN before) =>
                 /\ cacheCall.input \in DOMAIN after
                 /\ after[cacheCall.input].Time = cacheCall.time
           /\ \A key \in DOMAIN before :
                 ~Stale(before[key], cacheCall.time) => key \in DOMAIN after

LastAccessRefreshedWitness ==
    /\ CacheCalled
    /\ cacheCall.input = Sha1OfLiteral[1]
    /\ cacheCall.value = LiteralOf[1]
    /\ cacheCall.time = 400
    /\ cacheCall.pre[cacheCall.activity][cacheCall.input].Time = 200
    /\ ActivityValuesBySha1[cacheCall.activity][cacheCall.input].Time = 400

\* C28: Send upserts a policy only for the name "set-policy", invokes the
\* configuration receiver only for the name "set-loadbalancer", and for any
\* other name returns success with the registry as it was and nothing
\* emitted.
DispatchBySinkName ==
    call.op = "Send" =>
        /\ (\E n \in DOMAIN Policies : n \notin DOMAIN call.pre \/ Policies[n] # call.pre[n])
              => call.name = "set-policy"
        /\ ReceiverInvocations # {} => call.name = "set-loadbalancer"
        /\ call.name \notin {"set-policy", "set-loadbalancer"} =>
              /\ call.err = Nil
              /\ Policies = call.pre
              /\ call.events = <<>>

DispatchBySinkNameWitness ==
    /\ call.op = "Send"
    /\ call.name \in OtherNames
    /\ WellFormedPolicy
    /\ TheLoadBalancer.PolicyDescriptions[1].PolicyName \notin DOMAIN call.pre
    /\ DOMAIN call.pre # {}
    /\ Policies = call.pre

\* The keys and values a reader finds in a configuration text.
Read(text) == ParseLines(text, <<>>, EmptyConfiguration)

\* C21: in the serialized document every key of the template that no call
\* was told to set has the template's value, in every section, and every
\* key the template does not have is one a call was told to set.
SynthesisFrame ==
    document.set =>
        LET output == Read(String(document.haproxyConfiguration))
            template == Read(document.template)
        IN /\ \A section \in DOMAIN template :
                 /\ section \in DOMAIN output
                 /\ \A k \in DOMAIN template[section] :
                       <<section, k>> \notin document.touched =>
                           /\ k \in DOMAIN output[section]
                           /\ output[section][k] = template[section][k]
           /\ \A section \in DOMAIN output :
                 \A k \in DOMAIN output[section] :
                    (section \notin DOMAIN template \/ k \notin DOMAIN template[section])
                        => <<section, k>> \in document.touched

SynthesisFrameWitness ==
    /\ edit.op = "UpdateConfigurationSection"
    /\ edit.err = Nil
    /\ edit.section = <<"backend", "backend-http-8080">>
    /\ <<"frontend", "http-8080">> \in DOMAIN edit.pre
    /\ <<DefaultsSection, "timeout connect">> \in document.touched
    /\ document.haproxyConfiguration[DefaultsSection]["timeout connect"] = "15s"
    /\ document.haproxyConfiguration[DefaultsSection]["timeout client"] = "1m"

\* C23: UpdateConfigurationSection succeeds whether or not the section is
\* in the document already, and leaves the section holding the supplied
\* value under every supplied key.
IdempotentSectionCreate ==
    edit.op = "UpdateConfigurationSection" =>
        /\ edit.err = Nil
        /\ edit.section \in DOMAIN document.haproxyConfiguration
        /\ \A k \in DOMAIN edit.attributes :
              /\ k \in DOMAIN document.haproxyConfiguration[edit.section]
              /\ document.haproxyConfiguration[edit.section][k] = edit.attributes[k]

\* C27: SetDefaultTimeout on a document whose defaults section has the
\* timeout succeeds and the serialized defaults section carries the new
\* value; without that timeout it returns an error and the document is as
\* it was.
DefaultTimeoutSet ==
    edit.op = "SetDefaultTimeout" =>
        LET attribute == TimeoutAttribute(edit.timeout)
        IN IF DefaultsSection \in DOMAIN edit.pre /\ attribute \in DOMAIN edit.pre[DefaultsSection]
           THEN /\ edit.err = Nil
                /\ Read(String(document.haproxyConfiguration))[DefaultsSection][attribute]
                      = edit.value
           ELSE /\ edit.err # Nil
                /\ document.haproxyConfiguration = edit.pre

DefaultTimeoutSetWitness ==
    /\ edit.op = "SetDefaultTimeout"
    /\ edit.timeout = "check"
    /\ edit.err = ErrFetch
    /\ document.template = ExampleConf
    /\ document.haproxyConfiguration[DefaultsSection]["timeout connect"] = "15s"

TaskHandled == task.op = "pollActivityTasks" /\ task.token.set

CallsOf(op) == {i \in DOMAIN task.calls : task.calls[i].op = op}

\* C22: the handler made for a task sees at most one Send and at most one
\* Receive; a Receive comes only after a Send that succeeded and only for a
\* task without a parameter; once the handler is made, Close is called on
\* it, last, however doActivity is left.
HandlerLifecycle ==
    TaskHandled =>
        /\ Cardinality(CallsOf("Send")) <= 1
        /\ Cardinality(CallsOf("Receive")) <= 1
        /\ \A i \in CallsOf("Receive") :
              /\ ~task.parameter.set
              /\ \E j \in CallsOf("Send") : j < i /\ task.calls[j].err = Nil
        /\ task.calls # <<>> => CallsOf("Close") = {Len(task.calls)}
        /\ task.calls = <<>> => task.err = DialError

HandlerLifecycleWitness ==
    /\ TaskHandled
    /\ Len(task.calls) = 3
    /\ task.calls[2].op = "Receive"
    /\ task.calls[2].err # Nil
    /\ task.calls[3].op = "Close"

\* C29: for a polled task with a token the loop attempts exactly one
\* response, RespondTaskComplete when doActivity returned no error and
\* RespondTaskFailed with the error as message when it did; a poll
\* without a token is followed by no response.
OneResponsePerTask ==
    task.op = "pollActivityTasks" =>
        IF task.token.set
        THEN /\ Len(task.responses) = 1
             /\ task.err = Nil => task.responses[1].op = "RespondTaskComplete"
             /\ task.err # Nil => /\ task.responses[1].op = "RespondTaskFailed"
                                  /\ task.responses[1].message = task.err
        ELSE task.responses = <<>>

\* C30: for a task without a parameter whose Receive returned an error,
\* doActivity returns that error and no result.
ReceiveFailureSurfaced ==
    (TaskHandled /\ ~task.parameter.set) =>
        \A i \in CallsOf("Receive") :
            task.calls[i].err # Nil =>
                /\ ~task.panic
                /\ task.err = task.calls[i].err
                /\ task.result = NilString

====
